---- MODULE Spec2Model ----
(***************************************************************************)
(* Model of the three stock_items "category" migration scripts             *)
(*   public/production/add_category_carefully.py                           *)
(*   public/production/add_category_support.py                             *)
(*   public/production/update_stock_category.py                            *)
(* and of the ensureStockItemsSchema guard that add_category_carefully.py  *)
(* writes into production-database.js.                                     *)
(*                                                                         *)
(* production-database.js is modelled as a sequence of regions.  A region  *)
(* is one statement or definition; its token lists are the comma separated *)
(* items the scripts' regular expressions look at.  A run of whitespace    *)
(* between two tokens is not modelled: every pattern of the scripts        *)
(* accepts the single blank written here.                                  *)
(***************************************************************************)
EXTENDS Integers, Sequences, FiniteSets, TLC

VARIABLES
    content,    \* production-database.js on disk
    orig,       \* production-database.js before the first run
    prev,       \* production-database.js before the last run
    runs,       \* number of script runs so far
    lastRun,    \* script of the last run
    prevRun,    \* script of the run before it
    exitCode,   \* exit status of the last run
    isPostgreSQL, \* the deployment's dialect switch
    dbTable,    \* live database: stock_items exists
    dbCols,     \* live database: number of category columns of stock_items
    pc,         \* per caller: position inside createStockItem / updateStockItem
    todo,       \* per caller: guard calls of the operation still to execute
    guarded,    \* per caller: a guard invocation completed in this operation
    lastErr,    \* per caller: the error the guard's catch block saw last
    escalated   \* per caller: an error reached the caller of the operation

fileVars == <<content, orig, prev, runs, lastRun, prevRun, exitCode>>
dbVars == <<isPostgreSQL, dbTable, dbCols>>
procVars == <<pc, todo, guarded, lastErr, escalated>>
vars == <<content, orig, prev, runs, lastRun, prevRun, exitCode,
          isPostgreSQL, dbTable, dbCols, pc, todo, guarded, lastErr, escalated>>

\* ---------------------------------------------------------------- bounds
MaxRuns == 2
NumProcs == 2

Procs == 1..NumProcs

\* ------------------------------------------------------- sequence helpers
InsertAt(s, i, e) == SubSeq(s, 1, i - 1) \o <<e>> \o SubSeq(s, i, Len(s))

IsPrefix(p, s) == Len(p) <= Len(s) /\ SubSeq(s, 1, Len(p)) = p

\* p is a prefix of s and a comma (a further item) follows it
IsPrefixComma(p, s) == Len(p) < Len(s) /\ SubSeq(s, 1, Len(p)) = p

Range(s) == {s[i] : i \in DOMAIN s}

Min(S) == CHOOSE x \in S : \A y \in S : x <= y

\* ---------------------------------------------------------------- regions
\* k     "table" | "insert" | "update" | "fn" | "guarddef" | "guardcall"
\* rec   table name, or function name with its parameter list
\* d     "sqlite" | "pg" | ""
\* cols  column declarations (table), column references (insert),
\*       assigned columns (update)
\* ph    placeholders of VALUES (insert) or of the assignments (update):
\*       n for $n, 0 for ?
\* whr   placeholder of a trailing WHERE id = ..., -1 when there is none
\* tail  text after the statement: "RETURNING *", "RETURNING id", "";
\*       for a table the text between CREATE TABLE and its name
\* call  "array" for pool.query(..., [args]), "run" for .run(args)
\* args  bound argument expressions
Region(k, rec, d, cols, ph, whr, tail, call, args) ==
    [k |-> k, rec |-> rec, d |-> d, cols |-> cols, ph |-> ph, whr |-> whr,
     tail |-> tail, call |-> call, args |-> args]

Table(rec, d, qual, cols) == Region("table", rec, d, cols, <<>>, -1, qual, "", <<>>)
Fn(sig) == Region("fn", sig, "", <<>>, <<>>, -1, "", "", <<>>)

\* re.sub(pattern, repl, content): every match is rewritten; hits are the
\* regions the pattern matches in, new their rewritten text
SubAll(c, hits, new) == [i \in DOMAIN c |-> IF i \in hits THEN new[i] ELSE c[i]]

\* re.sub(pattern, repl, content, count=1): only the first match is rewritten
SubFirst(c, hits, new) ==
    IF hits = {} THEN c
    ELSE [i \in DOMAIN c |-> IF i = Min(hits) THEN new[i] ELSE c[i]]

\* ------------------------------------------------------------- the tokens
DescText == "description TEXT"
UnitSqlite == "unit TEXT NOT NULL"
UnitPg == "unit VARCHAR(50) NOT NULL"
CategorySqlite == "category TEXT"
CategoryPg == "category VARCHAR(255)"
CategoryArg == "data.category || null"

HeadCols == <<"name", "description", "unit">>
HeadArgs == <<"data.name", "data.description", "data.unit">>
TailCols == <<"min_quantity", "location", "cost_per_unit_gbp">>
InsertCols == <<"name", "description", "unit", "current_quantity", "min_quantity",
                "location", "cost_per_unit_gbp">>
InsertArgs == <<"data.name", "data.description", "data.unit", "data.current_quantity || 0",
                "data.min_quantity || 0", "data.location", "data.cost_per_unit_gbp || 0">>
UpdateCols == <<"name", "description", "unit", "min_quantity", "location",
                "cost_per_unit_gbp">>
UpdateArgs == <<"data.name", "data.description", "data.unit", "data.min_quantity",
                "data.location", "data.cost_per_unit_gbp", "id">>

Dollars(n) == [i \in 1..n |-> i]
Marks(n) == [i \in 1..n |-> 0]

BomSig == "ensureBOMItemsSchema()"
CreateSig == "createStockItem(data)"
UpdateSig == "updateStockItem(id, data)"

GuardDef == Region("guarddef", "ensureStockItemsSchema()", "", <<>>, <<>>, -1, "", "", <<>>)
GuardCall == Region("guardcall", "await this.ensureStockItemsSchema();", "", <<>>, <<>>, -1,
                    "", "", <<>>)

\* ------------------------------------------ add_category_carefully.py steps
\* positions i where "a, b," stands in a column list
PairAt(cols, a, b) == {i \in 1..(Len(cols) - 2) : cols[i] = a /\ cols[i + 1] = b}

HasPair(r, a, b) == PairAt(r.cols, a, b) # {}

AddColumn(r, a, b, new) ==
    [r EXCEPT !.cols = InsertAt(r.cols, Min(PairAt(r.cols, a, b)) + 1, new)]

\* Step 1 (lines 11-18): (description TEXT,\s+)(unit TEXT NOT NULL,), count=1
SqlitePairMatch(r) == r.k = "table" /\ HasPair(r, DescText, UnitSqlite)
SqlitePairRewrite(r) == AddColumn(r, DescText, UnitSqlite, CategorySqlite)
Step1(c) ==
    LET hits == {i \in DOMAIN c : SqlitePairMatch(c[i])}
    IN  SubFirst(c, hits, [i \in hits |-> SqlitePairRewrite(c[i])])

\* Step 2 (lines 20-27): (description TEXT,\s+)(unit VARCHAR\(50\) NOT NULL,), count=1
PgPairMatch(r) == r.k = "table" /\ HasPair(r, DescText, UnitPg)
PgPairRewrite(r) == AddColumn(r, DescText, UnitPg, CategoryPg)
Step2(c) ==
    LET hits == {i \in DOMAIN c : PgPairMatch(c[i])}
    IN  SubFirst(c, hits, [i \in hits |-> PgPairRewrite(c[i])])

\* Step 3 (lines 29-62): re.search(r'(\s+)static async ensureBOMItemsSchema\(\)')
BomHits(c) == {i \in DOMAIN c : c[i].k = "fn" /\ c[i].rec = BomSig}
BomFound(c) == BomHits(c) # {}
Step3(c) == InsertAt(c, Min(BomHits(c)), GuardDef)

\* Step 4 (lines 66-70): INSERT INTO stock_items \(name, description, unit,
InsertColsMatch(r) ==
    r.k = "insert" /\ r.rec = "stock_items" /\ IsPrefixComma(HeadCols, r.cols)
InsertColsRewrite(r) == [r EXCEPT !.cols = InsertAt(r.cols, 3, "category")]
Step4Cols(c) ==
    LET hits == {i \in DOMAIN c : InsertColsMatch(c[i])}
    IN  SubAll(c, hits, [i \in hits |-> InsertColsRewrite(c[i])])

\* Step 4 (lines 73-77): VALUES \(\$1, \$2, \$3, \$4, \$5, \$6, \$7\) RETURNING
PgValuesMatch(r) ==
    r.k = "insert" /\ r.ph = Dollars(7) /\ r.tail \in {"RETURNING *", "RETURNING id"}
PgValuesRewrite(r) == [r EXCEPT !.ph = Dollars(8)]
Step4PgValues(c) ==
    LET hits == {i \in DOMAIN c : PgValuesMatch(c[i])}
    IN  SubAll(c, hits, [i \in hits |-> PgValuesRewrite(c[i])])

\* Step 4 (lines 80-84): VALUES \(\?, \?, \?, \?, \?, \?, \?\)
SqliteValuesMatch(r) == r.k = "insert" /\ r.ph = Marks(7)
SqliteValuesRewrite(r) == [r EXCEPT !.ph = Marks(8)]
Step4SqliteValues(c) ==
    LET hits == {i \in DOMAIN c : SqliteValuesMatch(c[i])}
    IN  SubAll(c, hits, [i \in hits |-> SqliteValuesRewrite(c[i])])

\* Step 5 (lines 88-92): \[data\.name, data\.description, data\.unit,
ArrayArgsMatch(r) == r.call = "array" /\ IsPrefixComma(HeadArgs, r.args)
ArgsRewrite(r) == [r EXCEPT !.args = InsertAt(r.args, 3, CategoryArg)]
Step5Array(c) ==
    LET hits == {i \in DOMAIN c : ArrayArgsMatch(c[i])}
    IN  SubAll(c, hits, [i \in hits |-> ArgsRewrite(c[i])])

\* Step 5 (lines 94-98): \.run\(data\.name, data\.description, data\.unit,
RunArgsMatch(r) == r.call \in {"run", "chain"} /\ IsPrefixComma(HeadArgs, r.args)
Step5Run(c) ==
    LET hits == {i \in DOMAIN c : RunArgsMatch(c[i])}
    IN  SubAll(c, hits, [i \in hits |-> ArgsRewrite(c[i])])

\* Step 6 (lines 102-106):
\* UPDATE stock_items SET name = \$1, description = \$2, unit = \$3,
PgUpdateHeadMatch(r) ==
    /\ r.k = "update" /\ r.rec = "stock_items"
    /\ IsPrefixComma(HeadCols, r.cols)
    /\ IsPrefixComma(Dollars(3), r.ph)
PgUpdateHeadRewrite(r) ==
    [r EXCEPT !.cols = InsertAt(r.cols, 3, "category"),
              !.ph = Dollars(4) \o SubSeq(r.ph, 4, Len(r.ph))]
Step6PgHead(c) ==
    LET hits == {i \in DOMAIN c : PgUpdateHeadMatch(c[i])}
    IN  SubAll(c, hits, [i \in hits |-> PgUpdateHeadRewrite(c[i])])

\* Step 6 (lines 108-112):
\* min_quantity = \$4, location = \$5, cost_per_unit_gbp = \$6\s+WHERE id = \$7
PgUpdateTailMatch(r) ==
    /\ r.k = "update"
    /\ Len(r.cols) >= 3
    /\ SubSeq(r.cols, Len(r.cols) - 2, Len(r.cols)) = TailCols
    /\ SubSeq(r.ph, Len(r.ph) - 2, Len(r.ph)) = <<4, 5, 6>>
    /\ r.whr = 7
PgUpdateTailRewrite_m(r) ==
    [r EXCEPT !.ph = SubSeq(r.ph, 1, Len(r.ph) - 3) \o <<5, 6, 7>>]
PgUpdateTailRewrite(r) ==
    [r EXCEPT !.ph = SubSeq(r.ph, 1, Len(r.ph) - 3) \o <<5, 6, 7>>, !.whr = 8]
Step6PgTail(c) ==
    LET hits == {i \in DOMAIN c : PgUpdateTailMatch(c[i])}
    IN  SubAll(c, hits, [i \in hits |-> PgUpdateTailRewrite(c[i])])

\* Step 6 (lines 115-119):
\* UPDATE stock_items SET name = \?, description = \?, unit = \?,
SqliteUpdateHeadMatch(r) ==
    /\ r.k = "update" /\ r.rec = "stock_items"
    /\ IsPrefixComma(HeadCols, r.cols)
    /\ IsPrefixComma(Marks(3), r.ph)
SqliteUpdateHeadRewrite(r) ==
    [r EXCEPT !.cols = InsertAt(r.cols, 3, "category"), !.ph = InsertAt(r.ph, 3, 0)]
Step6SqliteHead(c) ==
    LET hits == {i \in DOMAIN c : SqliteUpdateHeadMatch(c[i])}
    IN  SubAll(c, hits, [i \in hits |-> SqliteUpdateHeadRewrite(c[i])])

\* Step 7 (lines 122-126):
\* \[data\.name, data\.description, data\.unit, data\.min_quantity,
UpdateArrayMatch(r) ==
    r.call = "array" /\ IsPrefixComma(HeadArgs \o <<"data.min_quantity">>, r.args)
Step7Array(c) ==
    LET hits == {i \in DOMAIN c : UpdateArrayMatch(c[i])}
    IN  SubAll(c, hits, [i \in hits |-> ArgsRewrite(c[i])])

\* Step 7 (lines 128-132):
\* \)\.run\(data\.name, data\.description, data\.unit, data\.min_quantity,
UpdateRunMatch(r) ==
    r.call = "chain" /\ IsPrefixComma(HeadArgs \o <<"data.min_quantity">>, r.args)
Step7Run(c) ==
    LET hits == {i \in DOMAIN c : UpdateRunMatch(c[i])}
    IN  SubAll(c, hits, [i \in hits |-> ArgsRewrite(c[i])])

\* Step 8 (lines 136-147): (static async createStockItem\(data\) \{) and
\* (static async updateStockItem\(id, data\) \{), each followed by the call
RECURSIVE AddCalls(_, _)
AddCalls(c, sig) ==
    IF c = <<>> THEN <<>>
    ELSE IF Head(c).k = "fn" /\ Head(c).rec = sig
         THEN <<Head(c), GuardCall>> \o AddCalls(Tail(c), sig)
         ELSE <<Head(c)>> \o AddCalls(Tail(c), sig)

Step8(c) == AddCalls(AddCalls(c, CreateSig), UpdateSig)

\* lines 60-62: sys.exit(1) before the file is written back
CarefullyFails_m(c) ==
    \/ ~BomFound(Step2(Step1(c)))
    \/ \A i \in DOMAIN c : ~InsertColsMatch(c[i])
CarefullyFails(c) == ~BomFound(Step2(Step1(c)))

\* lines 6-151: the text add_category_carefully.py writes back
Carefully(c) ==
    LET c3 == Step3(Step2(Step1(c)))
        c5 == Step5Run(Step5Array(Step4SqliteValues(Step4PgValues(Step4Cols(c3)))))
        c6 == Step6SqliteHead(Step6PgTail(Step6PgHead(c5)))
    IN  Step8(Step7Run(Step7Array(c6)))

\* ------------------------------------------------ add_category_support.py
\* lines 5-96: the same rewrites without the guard and its calls
Support(c) ==
    LET c2 == Step2(Step1(c))
        c7 == Step5Run(Step5Array(Step4SqliteValues(Step4PgValues(Step4Cols(c2)))))
        c10 == Step6SqliteHead(Step6PgTail(Step6PgHead(c7)))
    IN  Step7Run(Step7Array(c10))

\* ----------------------------------------------- update_stock_category.py
\* a column declaration that holds a ")"
HasParen(col) ==
    col \in {UnitPg, CategoryPg, "name VARCHAR(255) NOT NULL", "location VARCHAR(255)"}

\* line 9: content.split('CREATE TABLE IF NOT EXISTS stock_items')[1].split(')')[0]
MarkerHits(c) ==
    {i \in DOMAIN c : c[i].k = "table" /\ c[i].rec = "stock_items"
                      /\ c[i].tail = "IF NOT EXISTS"}
FirstSegment(c) ==
    LET cols == c[Min(MarkerHits(c))].cols
        parens == {i \in DOMAIN cols : HasParen(cols[i])}
    IN  IF parens = {} THEN cols ELSE SubSeq(cols, 1, Min(parens) - 1)

\* lines 9-15
UTable(c) ==
    IF MarkerHits(c) # {} /\ CategorySqlite \notin Range(FirstSegment(c))
    THEN LET hits == {i \in DOMAIN c : SqlitePairMatch(c[i])}
         IN  SubFirst(c, hits, [i \in hits |-> SqlitePairRewrite(c[i])])
    ELSE c

\* lines 18-29: INSERT INTO stock_items \(name, description, unit,\s+current_quantity,
\* min_quantity, location, cost_per_unit_gbp\), applied twice
UInsertColsMatch(r) == r.k = "insert" /\ r.rec = "stock_items" /\ r.cols = InsertCols
UInsertColsOnce(c) ==
    LET hits == {i \in DOMAIN c : UInsertColsMatch(c[i])}
    IN  SubAll(c, hits, [i \in hits |-> InsertColsRewrite(c[i])])
UInsertCols(c) == UInsertColsOnce(UInsertColsOnce(c))

\* lines 32-36: VALUES \(\$1, ..., \$7\) RETURNING \*
UPgValuesMatch(r) == r.k = "insert" /\ r.ph = Dollars(7) /\ r.tail = "RETURNING *"
UPgValues(c) ==
    LET hits == {i \in DOMAIN c : UPgValuesMatch(c[i])}
    IN  SubAll(c, hits, [i \in hits |-> PgValuesRewrite(c[i])])

\* lines 46-50: the whole [data.name, ..., data.cost_per_unit_gbp || 0] array
UArrayArgsMatch(r) == r.call = "array" /\ r.args = InsertArgs
UArrayArgs(c) ==
    LET hits == {i \in DOMAIN c : UArrayArgsMatch(c[i])}
    IN  SubAll(c, hits, [i \in hits |-> ArgsRewrite(c[i])])

\* lines 53-57: the whole .run(data.name, ..., data.cost_per_unit_gbp || 0) call
URunArgsMatch(r) == r.call \in {"run", "chain"} /\ r.args = InsertArgs
URunArgs(c) ==
    LET hits == {i \in DOMAIN c : URunArgsMatch(c[i])}
    IN  SubAll(c, hits, [i \in hits |-> ArgsRewrite(c[i])])

\* lines 60-64: the whole UPDATE stock_items SET name = \$1, ... \s+WHERE id = \$7
\* RETURNING \*
UPgUpdateMatch(r) ==
    /\ r.k = "update" /\ r.rec = "stock_items"
    /\ r.cols = UpdateCols /\ r.ph = Dollars(6) /\ r.whr = 7
    /\ r.tail = "RETURNING *"
UPgUpdateRewrite(r) ==
    [r EXCEPT !.cols = InsertAt(r.cols, 3, "category"), !.ph = Dollars(7), !.whr = 8]
UPgUpdate(c) ==
    LET hits == {i \in DOMAIN c : UPgUpdateMatch(c[i])}
    IN  SubAll(c, hits, [i \in hits |-> UPgUpdateRewrite(c[i])])

\* lines 67-71: UPDATE stock_items SET name = \?, ..., cost_per_unit_gbp = \?
USqliteUpdateMatch(r) ==
    /\ r.k = "update" /\ r.rec = "stock_items"
    /\ IsPrefix(UpdateCols, r.cols) /\ IsPrefix(Marks(6), r.ph)
USqliteUpdate(c) ==
    LET hits == {i \in DOMAIN c : USqliteUpdateMatch(c[i])}
    IN  SubAll(c, hits, [i \in hits |-> SqliteUpdateHeadRewrite(c[i])])

\* lines 74-78: the whole [data.name, ..., data.cost_per_unit_gbp, id] array
UUpdateArrayMatch(r) == r.call = "array" /\ r.args = UpdateArgs
UUpdateArray(c) ==
    LET hits == {i \in DOMAIN c : UUpdateArrayMatch(c[i])}
    IN  SubAll(c, hits, [i \in hits |-> ArgsRewrite(c[i])])

\* lines 81-85: the whole ).run(data.name, ..., data.cost_per_unit_gbp, id) call
UUpdateRunMatch(r) == r.call = "chain" /\ r.args = UpdateArgs
UUpdateRun(c) ==
    LET hits == {i \in DOMAIN c : UUpdateRunMatch(c[i])}
    IN  SubAll(c, hits, [i \in hits |-> ArgsRewrite(c[i])])

\* lines 5-89: the text update_stock_category.py writes back
UpdateStock(c) ==
    LET c1 == URunArgs(UArrayArgs(Step4SqliteValues(UPgValues(UInsertCols(UTable(c))))))
    IN  UUpdateRun(UUpdateArray(USqliteUpdate(UPgUpdate(c1))))

\* ------------------------------------------- production-database.js inputs
\* The statements the scripts' patterns were written for, and the variations
\* of them the patterns tell apart.
MaterialsTable ==
    Table("materials", "sqlite", "IF NOT EXISTS",
          <<"name TEXT NOT NULL", DescText, UnitSqlite, "supplier TEXT">>)
StockSqliteTable ==
    Table("stock_items", "sqlite", "IF NOT EXISTS",
          <<"name TEXT NOT NULL", DescText, UnitSqlite, "location TEXT">>)
StockPgTable ==
    Table("stock_items", "pg", "IF NOT EXISTS",
          <<"name VARCHAR(255) NOT NULL", DescText, UnitPg, "location VARCHAR(255)">>)

PgInsert(tail) ==
    Region("insert", "stock_items", "pg", InsertCols, Dollars(7), -1, tail, "array",
           InsertArgs)
SqliteInsert ==
    Region("insert", "stock_items", "sqlite", InsertCols, Marks(7), -1, "", "run",
           InsertArgs)
MaterialsInsert ==
    Region("insert", "materials", "sqlite",
           <<"name", "description", "unit", "supplier", "grade", "colour", "price">>,
           Marks(7), -1, "", "run",
           <<"data.name", "data.description", "data.unit", "data.supplier", "data.grade",
             "data.colour", "data.price">>)

UpdShapes == {"canon", "extra", "short"}
UpdCols(shape) ==
    CASE shape = "canon" -> UpdateCols
      [] shape = "extra" -> UpdateCols \o <<"supplier">>
      [] shape = "short" -> HeadCols \o <<"location">>
UpdArgs(shape) ==
    CASE shape = "canon" -> UpdateArgs
      [] shape = "extra" -> SubSeq(UpdateArgs, 1, 6) \o <<"data.supplier", "id">>
      [] shape = "short" -> HeadArgs \o <<"data.location", "id">>
PgUpdate(shape) ==
    Region("update", "stock_items", "pg", UpdCols(shape), Dollars(Len(UpdCols(shape))),
           Len(UpdCols(shape)) + 1, "RETURNING *", "array", UpdArgs(shape))
SqliteUpdate(shape) ==
    Region("update", "stock_items", "sqlite", UpdCols(shape), Marks(Len(UpdCols(shape))),
           0, "", "chain", UpdArgs(shape))

Opt(b, r) == IF b THEN <<r>> ELSE <<>>

FullSource(otherFirst, bom, pgTail, upd, otherInsert) ==
    Opt(otherFirst, MaterialsTable)
    \o <<StockSqliteTable, StockPgTable>>
    \o Opt(bom, Fn(BomSig))
    \o <<Fn(CreateSig), PgInsert(pgTail), SqliteInsert>>
    \o <<Fn(UpdateSig), PgUpdate(upd), SqliteUpdate(upd)>>
    \o Opt(otherInsert, MaterialsInsert)

\* CREATE TABLE stock_items (description TEXT, unit TEXT NOT NULL) and
\* INSERT INTO stock_items (name, description, unit) VALUES (?, ?, ?)
ScenarioTable == Table("stock_items", "sqlite", "", <<DescText, UnitSqlite>>)
ScenarioInsert ==
    Region("insert", "stock_items", "sqlite", HeadCols, Marks(3), -1, "", "", <<>>)
ScenarioSource(bom) == <<ScenarioTable>> \o Opt(bom, Fn(BomSig)) \o <<ScenarioInsert>>

FullSources ==
    {FullSource(o, b, t, u, i) :
        o \in BOOLEAN, b \in BOOLEAN, t \in {"RETURNING *", ""}, u \in UpdShapes,
        i \in BOOLEAN}
ScenarioSources == {ScenarioSource(b) : b \in BOOLEAN}
Sources == FullSources \cup ScenarioSources

Scripts == {"carefully", "support", "update"}

\* ------------------------------------------------------------ script runs
Init ==
    /\ content \in Sources
    /\ orig = content
    /\ prev = content
    /\ runs = 0
    /\ lastRun = "none"
    /\ prevRun = "none"
    /\ exitCode = 0
    /\ isPostgreSQL = TRUE
    /\ dbTable = TRUE
    /\ dbCols = 0
    /\ pc = [p \in Procs |-> "idle"]
    /\ todo = [p \in Procs |-> 0]
    /\ guarded = [p \in Procs |-> FALSE]
    /\ lastErr = [p \in Procs |-> "none"]
    /\ escalated = [p \in Procs |-> FALSE]

Ran(script) ==
    /\ runs < MaxRuns
    /\ runs' = runs + 1
    /\ prev' = content
    /\ prevRun' = lastRun
    /\ lastRun' = script
    /\ UNCHANGED <<orig, dbVars, procVars>>

\* python3 add_category_carefully.py
RunCarefully ==
    /\ Ran("carefully")
    /\ IF CarefullyFails(content)
       THEN content' = content /\ exitCode' = 1
       ELSE content' = Carefully(content) /\ exitCode' = 0

\* python3 add_category_support.py
RunSupport ==
    /\ Ran("support")
    /\ content' = Support(content)
    /\ exitCode' = 0

\* python3 update_stock_category.py
RunUpdateStock ==
    /\ Ran("update")
    /\ content' = UpdateStock(content)
    /\ exitCode' = 0

Next == RunCarefully \/ RunSupport \/ RunUpdateStock

Spec == Init /\ [][Next]_vars

\* ------------------------------------------- the migrated source at run time
\* The calls add_category_carefully.py Step 8 wrote directly behind the
\* header of the operation with signature sig.
RECURSIVE LeadingCalls(_)
LeadingCalls(c) ==
    IF c # <<>> /\ Head(c).k = "guardcall" THEN 1 + LeadingCalls(Tail(c)) ELSE 0

HeaderHits(c, sig) == {i \in DOMAIN c : c[i].k = "fn" /\ c[i].rec = sig}

GuardCalls(c, sig) ==
    LET i == Min(HeaderHits(c, sig)) IN LeadingCalls(SubSeq(c, i + 1, Len(c)))

SigOf(o) == IF o = "create" THEN CreateSig ELSE UpdateSig

\* what a script leaves on disk for source s
Migrated(script, s) ==
    CASE script = "carefully" -> IF CarefullyFails(s) THEN s ELSE Carefully(s)
      [] script = "support" -> Support(s)
      [] script = "update" -> UpdateStock(s)

\* script run n times in a row on source s
RECURSIVE MigratedN(_, _, _)
MigratedN(script, s, n) ==
    IF n = 0 THEN s ELSE Migrated(script, MigratedN(script, s, n - 1))

\* the sources whose operations the application calls
GuardSources == {FullSource(FALSE, b, "RETURNING *", "canon", FALSE) : b \in BOOLEAN}

\* The application loads a migrated production-database.js against a live
\* database whose stock_items table may predate the category column.
InitGuard ==
    /\ orig \in GuardSources
    /\ lastRun \in Scripts
    /\ runs \in 1..MaxRuns
    /\ content = MigratedN(lastRun, orig, runs)
    /\ prev = MigratedN(lastRun, orig, runs - 1)
    /\ prevRun = IF runs > 1 THEN lastRun ELSE "none"
    /\ exitCode = IF lastRun = "carefully" /\ CarefullyFails(prev) THEN 1 ELSE 0
    /\ isPostgreSQL \in BOOLEAN
    /\ dbTable \in BOOLEAN
    /\ dbCols = 0
    /\ pc = [p \in Procs |-> "idle"]
    /\ todo = [p \in Procs |-> 0]
    /\ guarded = [p \in Procs |-> FALSE]
    /\ lastErr = [p \in Procs |-> "none"]
    /\ escalated = [p \in Procs |-> FALSE]

\* a caller enters createStockItem(data) or updateStockItem(id, data)
CallOp(p, o) ==
    /\ pc[p] = "idle"
    /\ HeaderHits(content, SigOf(o)) # {}
    /\ todo' = [todo EXCEPT ![p] = GuardCalls(content, SigOf(o))]
    /\ guarded' = [guarded EXCEPT ![p] = FALSE]
    /\ lastErr' = [lastErr EXCEPT ![p] = "none"]
    /\ pc' = [pc EXCEPT ![p] = IF GuardCalls(content, SigOf(o)) > 0 THEN "guard" ELSE "write"]
    /\ UNCHANGED <<fileVars, dbVars, escalated>>

\* await this.ensureStockItemsSchema() resolves
GuardReturns(p) ==
    /\ todo' = [todo EXCEPT ![p] = todo[p] - 1]
    /\ guarded' = [guarded EXCEPT ![p] = TRUE]
    /\ pc' = [pc EXCEPT ![p] = IF todo[p] > 1 THEN "guard" ELSE "write"]
    /\ UNCHANGED escalated

\* generated line 35: if (!isPostgreSQL) return;
GuardEnter(p) ==
    /\ pc[p] = "guard"
    /\ IF isPostgreSQL
       THEN pc' = [pc EXCEPT ![p] = "query"] /\ UNCHANGED <<todo, guarded, escalated>>
       ELSE GuardReturns(p)
    /\ UNCHANGED <<fileVars, dbVars, lastErr>>

\* generated lines 41-47: IF EXISTS (table) AND NOT EXISTS (column) THEN
GuardCheck(p) ==
    /\ pc[p] = "query"
    /\ IF dbTable /\ dbCols = 0
       THEN pc' = [pc EXCEPT ![p] = "alter"] /\ UNCHANGED <<todo, guarded, escalated>>
       ELSE GuardReturns(p)
    /\ UNCHANGED <<fileVars, dbVars, lastErr>>

\* generated line 38: pool.query rejects before the block ran
GuardQueryFails(p) ==
    /\ pc[p] = "query"
    /\ lastErr' = [lastErr EXCEPT ![p] = "query"]
    /\ pc' = [pc EXCEPT ![p] = "catch"]
    /\ UNCHANGED <<fileVars, dbVars, todo, guarded, escalated>>

\* generated line 48: ALTER TABLE stock_items ADD COLUMN category VARCHAR(255);
\* it fails when the column is there by now
GuardAlter(p) ==
    /\ pc[p] = "alter"
    /\ IF dbCols = 0
       THEN /\ dbCols' = dbCols + 1
            /\ GuardReturns(p)
            /\ UNCHANGED lastErr
       ELSE /\ lastErr' = [lastErr EXCEPT ![p] = "duplicate"]
            /\ pc' = [pc EXCEPT ![p] = "catch"]
            /\ UNCHANGED <<dbCols, todo, guarded, escalated>>
    /\ UNCHANGED <<fileVars, isPostgreSQL, dbTable>>

\* generated lines 52-54: catch (error) { console.error(...); }
CatchBlock_m(err) == [logged |-> err, rethrown |-> TRUE]
CatchBlock(err) == [logged |-> err, rethrown |-> FALSE]

GuardCatch(p) ==
    /\ pc[p] = "catch"
    /\ IF CatchBlock(lastErr[p]).rethrown
       THEN /\ pc' = [pc EXCEPT ![p] = "failed"]
            /\ escalated' = [escalated EXCEPT ![p] = TRUE]
            /\ UNCHANGED <<todo, guarded>>
       ELSE GuardReturns(p)
    /\ UNCHANGED <<fileVars, dbVars, lastErr>>

\* the operation issues its INSERT or UPDATE
IssueWrite(p) ==
    /\ pc[p] = "write"
    /\ pc' = [pc EXCEPT ![p] = "written"]
    /\ UNCHANGED <<fileVars, dbVars, todo, guarded, lastErr, escalated>>

\* the operation returns to its caller; its locals are gone
ReturnOp(p) ==
    /\ pc[p] = "written"
    /\ pc' = [pc EXCEPT ![p] = "idle"]
    /\ guarded' = [guarded EXCEPT ![p] = FALSE]
    /\ lastErr' = [lastErr EXCEPT ![p] = "none"]
    /\ UNCHANGED <<fileVars, dbVars, todo, escalated>>

NextGuard ==
    \E p \in Procs :
        \/ \E o \in {"create", "update"} : CallOp(p, o)
        \/ GuardEnter(p)
        \/ GuardCheck(p)
        \/ GuardQueryFails(p)
        \/ GuardAlter(p)
        \/ GuardCatch(p)
        \/ IssueWrite(p)
        \/ ReturnOp(p)

SpecGuard == InitGuard /\ [][NextGuard]_vars

\* ------------------------------------------------------------- the claims
StockTables(c) == {i \in DOMAIN c : c[i].k = "table" /\ c[i].rec = "stock_items"}
StockInserts(c) == {i \in DOMAIN c : c[i].k = "insert" /\ c[i].rec = "stock_items"}
StockUpdates(c) == {i \in DOMAIN c : c[i].k = "update" /\ c[i].rec = "stock_items"}
TableFound(c, d) == \E i \in StockTables(c) : c[i].d = d
IsOther(r) == r.k \in {"table", "insert", "update"} /\ r.rec # "stock_items"
Others(c) == SelectSeq(c, IsOther)

\* C1: a second run of add_category_carefully.py on the output of a first
\* successful run leaves production-database.js textually unchanged.
C1_Idempotent ==
    (orig \in FullSources /\ runs >= 2 /\ lastRun = "carefully" /\ prevRun = "carefully" /\ exitCode = 0)
        => content = prev

\* C2: after a successful run of add_category_carefully.py every stock_items
\* INSERT with a bound argument list has as many column references as
\* placeholders as argument expressions.
C2_InsertAligned ==
    (runs >= 1 /\ lastRun = "carefully" /\ exitCode = 0)
        => \A i \in StockInserts(content) :
              content[i].call # ""
                  => /\ Len(content[i].cols) = Len(content[i].ph)
                     /\ Len(content[i].ph) = Len(content[i].args)

\* C3: after a run of add_category_carefully.py or add_category_support.py no
\* two placeholders of a PostgreSQL UPDATE stock_items statement carry the
\* same ordinal.
C3_NoCollision ==
    (runs >= 1 /\ lastRun \in {"carefully", "support"} /\ exitCode = 0)
        => \A i \in StockUpdates(content) :
              content[i].d = "pg"
                  => /\ \A m, n \in DOMAIN content[i].ph :
                            m # n => content[i].ph[m] # content[i].ph[n]
                     /\ \A m \in DOMAIN content[i].ph : content[i].ph[m] # content[i].whr

CategoryBeforeUnit(r) ==
    LET decl == IF r.d = "pg" THEN CategoryPg ELSE CategorySqlite
        unit == IF r.d = "pg" THEN UnitPg ELSE UnitSqlite
        at == {i \in DOMAIN r.cols : r.cols[i] \in {CategorySqlite, CategoryPg}}
    IN  /\ Cardinality(at) = 1
        /\ \A i \in at : r.cols[i] = decl /\ i < Len(r.cols) /\ r.cols[i + 1] = unit

C5_BothDialects ==
    (runs = 1 /\ lastRun = "carefully" /\ exitCode = 0 /\ orig \in FullSources)
        => /\ TableFound(content, "sqlite") /\ TableFound(content, "pg")
           /\ \A i \in StockTables(content) : CategoryBeforeUnit(content[i])

\* C6: no createStockItem / updateStockItem call of the migrated source issues
\* its INSERT or UPDATE before a guard invocation completed in that call.
C6_GuardBeforeWrite == \A p \in Procs : pc[p] = "written" => guarded[p]

\* C7: whatever the interleaving of the guard invocations, none escalates an
\* error to its caller, none stops short of its write, the table never has two
\* category columns, and an ALTER TABLE that failed because the column was
\* there leaves exactly one.
C7_ConcurrentGuards ==
    /\ dbCols <= 1
    /\ \A p \in Procs :
          /\ ~escalated[p]
          /\ pc[p] # "failed"
          /\ lastErr[p] = "duplicate" => dbCols = 1

\* C7 witness: a caller whose ALTER TABLE failed on the existing column has
\* issued its write.
C7_Witness ==
    \E p \in Procs : lastErr[p] = "duplicate" /\ pc[p] = "written" /\ dbCols = 1

C9_Scenario ==
    (runs = 1 /\ exitCode = 0 /\ orig \in ScenarioSources)
        => /\ \E i \in StockTables(content) :
                 content[i].cols = <<DescText, CategorySqlite, UnitSqlite>>
           /\ \E i \in StockInserts(content) :
                 /\ content[i].cols = <<"name", "description", "category", "unit">>
                 /\ content[i].ph = Marks(4)

\* C10: the table definitions and statements of record types other than
\* stock_items are the ones of the source before the first run.
C10_Frame == Others(content) = Others(orig)
====
